---- MODULE Spec2Model ----
(***************************************************************************)
(* Model of NatController (src/nat_controller.py): the packet-in handler   *)
(* of an OpenFlow NAT gateway, its MAC-learning table, ARP table with      *)
(* pending-request queues, and NAT translation table.                      *)
(*                                                                         *)
(* One packet-in event is handled to completion per step.  The messages    *)
(* the handler hands to the switch during that event (packet-outs and      *)
(* flow-mods, in order) are kept in msgs; an exception that ends the       *)
(* handler early is kept in err.                                           *)
(***************************************************************************)
EXTENDS Integers, Sequences, FiniteSets, TLC

\* ---------------------------------------------------------------- bounds
\* External ports handed out in one behaviour.
MaxAlloc == 2
\* Requests parked awaiting resolution, over all addresses.
MaxQueue == 2

\* ------------------------------------------------------- program constants
NatPortBase == 3000
ETH_TYPE_ARP == 2054
ETH_TYPE_IP == 2048
ETH_TYPE_IPV6 == 34525
\* An ethertype that is neither ARP, IPv4 nor IPv6 (is_ipv4 is false).
ETH_TYPE_LLDP == 35020
IPPROTO_ICMP == 1
IPPROTO_TCP == 6
IPPROTO_UDP == 17
\* A protocol that is neither ICMP, TCP nor UDP (no branch matches).
IPPROTO_GRE == 47
ARP_REQUEST == 1
ARP_REPLY == 2

\* Python's None, for an absent match or action list.
None == <<>>
\* None where a port is expected.
NoPort == "None"
OFPP_FLOOD == "FLOOD"
OFPP_IN_PORT == "IN_PORT"
BROADCAST == "ff:ff:ff:ff:ff:ff"
ZERO_MAC == "00:00:00:00:00:00"

\* nat_config: the gateway's identities and networks.
nat_external_mac == "macE"
nat_internal_mac == "macI"
nat_external_ip == "ipE"
nat_internal_ip == "ipI"
nat_gateway_ip == "ipG"
nat_internal_net == {"ipI", "ipA", "ipB"}

\* ------------------------------------------------------------ dictionaries
\* Python dict assignment d[k] = v.
Put(d, k, v) == [x \in (DOMAIN d) \cup {k} |-> IF x = k THEN v ELSE d[x]]
\* Python del d[k].
Del(d, k) == [x \in (DOMAIN d) \ {k} |-> d[x]]
EmptyDict == [x \in {} |-> None]

\* str(n) of a non-negative integer: its decimal digits, most significant first.
RECURSIVE Str(_)
Str(n) == IF n < 10 THEN <<n>> ELSE Append(Str(n \div 10), n % 10)

\* ------------------------------------------------------------------ frames
\* A decoded frame: the Ethernet header and, by ethertype, the ARP or the
\* IPv4 and transport fields (the others are "-" or 0).
Pkt(et, src, dst, op, smac, sip, dip, proto, sport, dport) ==
    [ethertype |-> et, src |-> src, dst |-> dst, opcode |-> op,
     src_mac |-> smac, src_ip |-> sip, dst_ip |-> dip,
     proto |-> proto, src_port |-> sport, dst_port |-> dport]

\* The packet-in message: the frame and the port it came in on.
OfPacket(data, in_port) == [data |-> data, in_port |-> in_port]

NoPkt == Pkt(0, "-", "-", 0, "-", "-", "-", 0, 0, 0)

\* ----------------------------------------------------------------- actions
SetField(f, s, n) == [kind |-> "SetField", field |-> f, val |-> s, num |-> n]
OFPActionOutput(port) == [kind |-> "Output", field |-> "port", val |-> port, num |-> 0]
OFPActionDecNwTtl == [kind |-> "DecNwTtl", field |-> "-", val |-> "-", num |-> 0]

\* OFPMatch(eth_type, ipv4_src, ipv4_dst, ip_proto, tcp/udp_src, tcp/udp_dst);
\* the ports are 0 when the match names none.
OFPMatch(src_ip, dst_ip, proto, sport, dport) ==
    [eth_type |-> ETH_TYPE_IP, ipv4_src |-> src_ip, ipv4_dst |-> dst_ip,
     ip_proto |-> proto, tp_src |-> sport, tp_dst |-> dport]

\* ---------------------------------------------------------------- messages
\* by names the function that built the payload (the forwarded frame itself,
\* or an ARP request or reply the controller made up).
PacketOut(in_port, actions, data, by) ==
    [type |-> "PacketOut", in_port |-> in_port, match |-> None,
     actions |-> actions, data |-> data, by |-> by]
FlowMod(match, actions) ==
    [type |-> "FlowMod", in_port |-> "-", match |-> match,
     actions |-> actions, data |-> NoPkt, by |-> "add_flow"]

VARIABLES arp_table, switch_table, pending_arp, nat_port, nat_translation,
          msgs, err, event, alloc_log, flow_log, arp_bcast, last_in

vars == <<arp_table, switch_table, pending_arp, nat_port, nat_translation,
          msgs, err, event, alloc_log, flow_log, arp_bcast, last_in>>

\* The controller's fields and the current event's output, as one value the
\* handlers thread through.
Self == [arp_table |-> arp_table, switch_table |-> switch_table,
         pending_arp |-> pending_arp, nat_port |-> nat_port,
         nat_translation |-> nat_translation, msgs |-> <<>>, err |-> "none",
         alloc_log |-> alloc_log]

Raise(S, exc) == [S EXCEPT !.err = exc]

\* -------------------------------------------------------------- predicates
is_arp(p) == p.ethertype = ETH_TYPE_ARP
is_ipv4(p) == p.ethertype = ETH_TYPE_IP
is_ipv6(p) == p.ethertype = ETH_TYPE_IPV6
is_internal_network_only_gateway(ip) == ip = nat_internal_ip

is_internal_network(ip) == ip \in nat_internal_net

\* ------------------------------------------------------------- primitives
\* send_packet: one OFPPacketOut, the output action appended to the list.
send_packet(S, payload, of_packet, port, actions, by) ==
    LET acts == IF port # NoPort THEN Append(actions, OFPActionOutput(port))
                ELSE actions
    IN  [S EXCEPT !.msgs = Append(@, PacketOut(of_packet.in_port, acts, payload, by))]

\* add_flow: one OFPFlowMod; send_msg serialises it at once, so what is
\* installed is the action list as it is at this call.
add_flow(S, match, actions) ==
    [S EXCEPT !.msgs = Append(@, FlowMod(match, actions))]

switch_learn_keep_first(S, of_packet, data_packet) ==
    IF data_packet.src \in DOMAIN S.switch_table THEN S
    ELSE [S EXCEPT !.switch_table = Put(@, data_packet.src, of_packet.in_port)]

switch_learn(S, of_packet, data_packet) ==
    [S EXCEPT !.switch_table = Put(@, data_packet.src, of_packet.in_port)]

\* The port switch_forward picks for a destination MAC.
dst_port_of(S, dst_mac) ==
    IF dst_mac \in DOMAIN S.switch_table THEN S.switch_table[dst_mac]
    ELSE OFPP_FLOOD

\* actions is <<>> where the source passes None: send_packet turns None
\* into the empty list.
switch_forward(S, of_packet, data_packet, actions) ==
    send_packet(S, of_packet.data, of_packet,
                dst_port_of(S, data_packet.dst), actions, "switch_forward")

router_next_hop(src_mac, dst_mac) ==
    <<OFPActionDecNwTtl,
      SetField("eth_src", src_mac, 0),
      SetField("eth_dst", dst_mac, 0)>>

\* ------------------------------------------------------------------- ARP
ArpRequestPkt(src_mac, src_ip, ip) ==
    Pkt(ETH_TYPE_ARP, src_mac, BROADCAST, ARP_REQUEST, src_mac, src_ip, ip, 0, 0, 0)

send_arp_request_always(S, ip, of_packet, match, actions) ==
    LET entry == [of_packet |-> of_packet, match |-> match, actions |-> actions]
        q == IF ip \in DOMAIN S.pending_arp THEN S.pending_arp[ip] ELSE <<>>
        S1 == [S EXCEPT !.pending_arp = Put(@, ip, Append(q, entry))]
        src_mac == IF ip = nat_gateway_ip THEN nat_external_mac ELSE nat_internal_mac
        src_ip == IF ip = nat_gateway_ip THEN nat_external_ip ELSE nat_internal_ip
    IN  send_packet(S1, ArpRequestPkt(src_mac, src_ip, ip), of_packet,
                    OFPP_FLOOD, <<>>, "send_arp_request")

send_arp_request_internal_sender(S, ip, of_packet, match, actions) ==
    LET entry == [of_packet |-> of_packet, match |-> match, actions |-> actions]
    IN  IF ip \in DOMAIN S.pending_arp
        THEN [S EXCEPT !.pending_arp = Put(@, ip, Append(S.pending_arp[ip], entry))]
        ELSE LET S1 == [S EXCEPT !.pending_arp = Put(@, ip, <<entry>>)]
             IN  send_packet(S1, ArpRequestPkt(nat_internal_mac, nat_internal_ip, ip),
                             of_packet, OFPP_FLOOD, <<>>, "send_arp_request")

send_arp_request(S, ip, of_packet, match, actions) ==
    LET entry == [of_packet |-> of_packet, match |-> match, actions |-> actions]
    IN  IF ip \in DOMAIN S.pending_arp
        THEN [S EXCEPT !.pending_arp = Put(@, ip, Append(S.pending_arp[ip], entry))]
        ELSE LET S1 == [S EXCEPT !.pending_arp = Put(@, ip, <<entry>>)]
                 src_mac == IF ip = nat_gateway_ip THEN nat_external_mac
                            ELSE nat_internal_mac
                 src_ip == IF ip = nat_gateway_ip THEN nat_external_ip
                           ELSE nat_internal_ip
             IN  send_packet(S1, ArpRequestPkt(src_mac, src_ip, ip), of_packet,
                             OFPP_FLOOD, <<>>, "send_arp_request")

router_forward_drop_unresolved(S, of_packet, data_packet, next_ip, match, extra_actions) ==
    IF next_ip \notin DOMAIN S.arp_table THEN S
    ELSE LET dst_mac == S.arp_table[next_ip]
             src_mac == IF next_ip = nat_gateway_ip THEN nat_external_mac
                        ELSE nat_internal_mac
             actions == router_next_hop(src_mac, dst_mac) \o extra_actions
             S1 == switch_forward(S, of_packet, data_packet, actions)
         IN  IF match # None
             THEN add_flow(S1, match, S1.msgs[Len(S1.msgs)].actions)
             ELSE S1

\* extra_actions None and [] are both falsy and add nothing: both are <<>>.
\* switch_forward appends its output action to the list, so the flow added
\* afterwards carries the list as sent.
router_forward(S, of_packet, data_packet, next_ip, match, extra_actions) ==
    IF next_ip \notin DOMAIN S.arp_table
    THEN send_arp_request(S, next_ip, of_packet, match, extra_actions)
    ELSE LET dst_mac == S.arp_table[next_ip]
             src_mac == IF next_ip = nat_gateway_ip THEN nat_external_mac
                        ELSE nat_internal_mac
             actions == router_next_hop(src_mac, dst_mac) \o extra_actions
             S1 == switch_forward(S, of_packet, data_packet, actions)
         IN  IF match # None
             THEN add_flow(S1, match, S1.msgs[Len(S1.msgs)].actions)
             ELSE S1

ArpReplyPkt(own_mac, own_ip, to_mac, to_ip) ==
    Pkt(ETH_TYPE_ARP, own_mac, to_mac, ARP_REPLY, own_mac, own_ip, to_ip, 0, 0, 0)

send_arp_reply(S, of_packet, data_packet) ==
    LET arp_dst_ip == data_packet.dst_ip
    IN  IF arp_dst_ip \notin {nat_internal_ip, nat_external_ip} THEN S
        ELSE LET arp_dst_mac == IF arp_dst_ip = nat_internal_ip
                                THEN nat_internal_mac ELSE nat_external_mac
             IN  send_packet(S,
                             ArpReplyPkt(arp_dst_mac, arp_dst_ip,
                                         data_packet.src_mac, data_packet.src_ip),
                             of_packet, OFPP_IN_PORT, <<>>, "send_arp_reply")

\* The loop over pending_arp[arp_src_ip]: each parked request goes through
\* router_forward again, in queue order.
RECURSIVE replay(_, _, _)
replay(S, q, ip) ==
    IF q = <<>> \/ S.err # "none" THEN S
    ELSE replay(router_forward(S, Head(q).of_packet, Head(q).of_packet.data, ip,
                               Head(q).match, Head(q).actions),
                Tail(q), ip)

handle_incoming_arp_reply_only(S, of_packet, data_packet) ==
    LET arp_src_ip == data_packet.src_ip
        reply == data_packet.opcode = ARP_REPLY
        S1 == IF reply
              THEN [S EXCEPT !.arp_table = Put(@, arp_src_ip, data_packet.src_mac)]
              ELSE S
        waiting == reply /\ arp_src_ip \in DOMAIN S1.pending_arp
        q == IF waiting THEN S1.pending_arp[arp_src_ip] ELSE <<>>
        S2 == replay(S1, q, arp_src_ip)
        S3 == IF waiting THEN [S2 EXCEPT !.pending_arp = Del(@, arp_src_ip)] ELSE S2
        of_packet2 == IF q # <<>> THEN q[Len(q)].of_packet ELSE of_packet
        S4 == switch_forward(S3, of_packet2, data_packet, <<>>)
    IN  IF data_packet.opcode = ARP_REQUEST
        THEN send_arp_reply(S4, of_packet2, data_packet)
        ELSE S4

handle_incoming_arp_keep_queue(S, of_packet, data_packet) ==
    LET arp_src_ip == data_packet.src_ip
        S1 == [S EXCEPT !.arp_table = Put(@, arp_src_ip, data_packet.src_mac)]
        waiting == arp_src_ip \in DOMAIN S1.pending_arp
        q == IF waiting THEN S1.pending_arp[arp_src_ip] ELSE <<>>
        S2 == replay(S1, q, arp_src_ip)
        of_packet2 == IF q # <<>> THEN q[Len(q)].of_packet ELSE of_packet
        S4 == switch_forward(S2, of_packet2, data_packet, <<>>)
    IN  IF data_packet.opcode = ARP_REQUEST
        THEN send_arp_reply(S4, of_packet2, data_packet)
        ELSE S4

\* The loop variable of the replay loop is named of_packet too: after a
\* non-empty loop, of_packet is the packet-in of the last parked request, and
\* the forward and the reply that follow use it.
handle_incoming_arp(S, of_packet, data_packet) ==
    LET arp_src_ip == data_packet.src_ip
        S1 == [S EXCEPT !.arp_table = Put(@, arp_src_ip, data_packet.src_mac)]
        waiting == arp_src_ip \in DOMAIN S1.pending_arp
        q == IF waiting THEN S1.pending_arp[arp_src_ip] ELSE <<>>
        S2 == replay(S1, q, arp_src_ip)
        S3 == IF waiting /\ S2.err = "none"
              THEN [S2 EXCEPT !.pending_arp = Del(@, arp_src_ip)]
              ELSE S2
        of_packet2 == IF q # <<>> THEN q[Len(q)].of_packet ELSE of_packet
        S4 == IF S3.err # "none" THEN S3
              ELSE switch_forward(S3, of_packet2, data_packet, <<>>)
    IN  IF S4.err = "none" /\ data_packet.opcode = ARP_REQUEST
        THEN send_arp_reply(S4, of_packet2, data_packet)
        ELSE S4

\* ------------------------------------------------------------------- NAT
add_nat_entry_no_increment(S, internal_entry) ==
    [S EXCEPT !.nat_translation = Put(@, Str(S.nat_port), internal_entry),
              !.alloc_log = Append(@, [port |-> S.nat_port, entry |-> internal_entry])]

add_nat_entry_key_after_increment(S, internal_entry) ==
    [S EXCEPT !.nat_translation = Put(@, Str(S.nat_port + 1), internal_entry),
              !.nat_port = @ + 1,
              !.alloc_log = Append(@, [port |-> S.nat_port, entry |-> internal_entry])]

add_nat_entry_reuse(S, internal_entry) ==
    IF \E k \in DOMAIN S.nat_translation : S.nat_translation[k] = internal_entry
    THEN S
    ELSE [S EXCEPT !.nat_translation = Put(@, Str(S.nat_port), internal_entry),
                   !.nat_port = @ + 1,
                   !.alloc_log = Append(@, [port |-> S.nat_port, entry |-> internal_entry])]

\* The port returned is S.nat_port, the counter before the call; alloc_log
\* records each call's argument and return value.
add_nat_entry(S, internal_entry) ==
    [S EXCEPT !.nat_translation = Put(@, Str(S.nat_port), internal_entry),
              !.nat_port = @ + 1,
              !.alloc_log = Append(@, [port |-> S.nat_port, entry |-> internal_entry])]

nat_miss_only_zero(S, port_nat) == port_nat = 0

\* Line 287: the frame's destination port has no translation.
nat_miss(S, port_nat) ==
    port_nat = 0 \/ Str(port_nat) \notin DOMAIN S.nat_translation

InboundActions(internal_ip_addr, internal_port, internal_host_mac, out_port, protocol) ==
    <<SetField("ipv4_dst", internal_ip_addr, 0),
      SetField(IF protocol = IPPROTO_TCP THEN "tcp_dst" ELSE "udp_dst", "-", internal_port),
      SetField("eth_src", nat_internal_mac, 0),
      SetField("eth_dst", internal_host_mac, 0),
      OFPActionOutput(out_port)>>

handle_incoming_external_msg(S, of_packet, data_packet) ==
    IF ~is_ipv4(data_packet) THEN S
    ELSE IF data_packet.proto \notin {IPPROTO_TCP, IPPROTO_UDP} THEN S
    ELSE IF nat_miss(S, data_packet.dst_port) THEN S
    ELSE IF Str(data_packet.dst_port) \notin DOMAIN S.nat_translation
         THEN Raise(S, "KeyError")
    ELSE
      LET nat_entry == S.nat_translation[Str(data_packet.dst_port)]
          internal_ip_addr == nat_entry[1]
          internal_port == nat_entry[2]
          S1 == IF internal_ip_addr \notin DOMAIN S.arp_table
                THEN send_arp_request(S, internal_ip_addr, of_packet, None, None)
                ELSE S
      IN  \* line 308: arp_table[internal_ip_addr], read after the sleep of
          \* line 306; no other event is handled meanwhile, so the table is
          \* as send_arp_request left it
          IF internal_ip_addr \notin DOMAIN S1.arp_table THEN Raise(S1, "KeyError")
          ELSE
            LET internal_host_mac == S1.arp_table[internal_ip_addr]
            IN  \* lines 321, 331: out_port is bound only if the MAC was learned
                IF internal_host_mac \notin DOMAIN S1.switch_table
                THEN Raise(S1, "UnboundLocalError")
                ELSE
                  LET out_port == S1.switch_table[internal_host_mac]
                      match == <<OFPMatch(data_packet.src_ip, data_packet.dst_ip,
                                          data_packet.proto, data_packet.src_port,
                                          data_packet.dst_port)>>
                      actions == InboundActions(internal_ip_addr, internal_port,
                                                internal_host_mac, out_port,
                                                data_packet.proto)
                      S2 == add_flow(S1, match, actions)
                  IN  switch_forward(S2, of_packet, data_packet, actions)

OutboundActions(ext_port, out_port, protocol) ==
    <<SetField("ipv4_src", nat_external_ip, 0),
      SetField(IF protocol = IPPROTO_TCP THEN "tcp_src" ELSE "udp_src", "-", ext_port),
      SetField("eth_src", nat_external_mac, 0),
      OFPActionOutput(out_port)>>

handle_incoming_internal_msg(S, of_packet, data_packet) ==
    LET out_port == dst_port_of(S, data_packet.dst)
        protocol == data_packet.proto
        src_ip == data_packet.src_ip
        dst_ip == data_packet.dst_ip
    IN
    IF ~is_ipv4(data_packet) THEN S
    ELSE IF is_internal_network(dst_ip)
    THEN LET actions == <<OFPActionOutput(out_port)>>
         IN  \* line 386: match is bound only for ICMP, TCP and UDP
             IF protocol \notin {IPPROTO_ICMP, IPPROTO_TCP, IPPROTO_UDP}
             THEN Raise(S, "UnboundLocalError")
             ELSE LET match == IF protocol = IPPROTO_ICMP
                               THEN <<OFPMatch(src_ip, dst_ip, protocol, 0, 0)>>
                               ELSE <<OFPMatch(src_ip, dst_ip, protocol,
                                               data_packet.src_port,
                                               data_packet.dst_port)>>
                      S1 == add_flow(S, match, actions)
                  IN  switch_forward(S1, of_packet, data_packet, actions)
    ELSE \* line 423: match and actions are bound only for TCP and UDP
         IF protocol \notin {IPPROTO_TCP, IPPROTO_UDP}
         THEN Raise(S, "UnboundLocalError")
         ELSE LET entry == <<src_ip, data_packet.src_port>>
                  ext_port == S.nat_port
                  S1 == add_nat_entry(S, entry)
                  match == <<OFPMatch(src_ip, dst_ip, protocol,
                                      data_packet.src_port, data_packet.dst_port)>>
                  actions == OutboundActions(ext_port, out_port, protocol)
                  S2 == add_flow(S1, match, actions)
              IN  router_forward(S2, of_packet, data_packet, nat_gateway_ip,
                                 match, actions)

\* ------------------------------------------------------------- packet-in
handle_packet_in(S, of_packet) ==
    LET data_packet == of_packet.data
    IN  IF is_ipv6(data_packet) THEN S
        ELSE LET S1 == switch_learn(S, of_packet, data_packet)
             IN  IF is_arp(data_packet)
                 THEN handle_incoming_arp(S1, of_packet, data_packet)
                 ELSE IF data_packet.dst = nat_external_mac
                 THEN handle_incoming_external_msg(S1, of_packet, data_packet)
                 ELSE handle_incoming_internal_msg(S1, of_packet, data_packet)

\* ------------------------------------------------------------ environment
\* The hosts that send frames: A and B on the internal side, G the external
\* next hop.  ipX is a host beyond G.
HostA == [mac |-> "macA", ip |-> "ipA", port |-> "p1"]
HostB == [mac |-> "macB", ip |-> "ipB", port |-> "p3"]
HostG == [mac |-> "macG", ip |-> "ipG", port |-> "p2"]
IPs == {"ipA", "ipB", "ipG", "ipX", "ipI", "ipE"}

ArpRequestFrom(h, target) ==
    OfPacket(Pkt(ETH_TYPE_ARP, h.mac, BROADCAST, ARP_REQUEST, h.mac, h.ip, target,
                 0, 0, 0), h.port)
ArpReplyFrom(h, to_mac, to_ip) ==
    OfPacket(Pkt(ETH_TYPE_ARP, h.mac, to_mac, ARP_REPLY, h.mac, h.ip, to_ip,
                 0, 0, 0), h.port)
\* An ARP reply for B's address relayed by A: the Ethernet source is not the
\* ARP sender, and the MAC it announces has sent no frame itself.
ArpRelayed ==
    OfPacket(Pkt(ETH_TYPE_ARP, HostA.mac, nat_internal_mac, ARP_REPLY,
                 "macR", HostB.ip, nat_internal_ip, 0, 0, 0), HostA.port)

ArpEvents ==
    {ArpRequestFrom(HostA, nat_internal_ip), ArpRequestFrom(HostA, "ipB"),
     ArpRequestFrom(HostG, nat_external_ip),
     ArpReplyFrom(HostA, nat_internal_mac, nat_internal_ip),
     ArpReplyFrom(HostG, nat_external_mac, nat_external_ip),
     ArpRelayed}

Ipv4From(h, dst_mac, src_ip, dst_ip, proto, sport, dport) ==
    OfPacket(Pkt(ETH_TYPE_IP, h.mac, dst_mac, 0, "-", src_ip, dst_ip,
                 proto, sport, dport), h.port)

\* Frames for the outbound path whose destination is outside the internal
\* network: TCP and ICMP from A, UDP from B, and TCP from the external side.
OutboundEvents ==
    {Ipv4From(HostA, nat_internal_mac, "ipA", "ipX", IPPROTO_TCP, 10, 80),
     Ipv4From(HostA, nat_internal_mac, "ipA", "ipX", IPPROTO_ICMP, 0, 0),
     Ipv4From(HostB, nat_internal_mac, "ipB", "ipX", IPPROTO_UDP, 10, 80),
     Ipv4From(HostG, nat_internal_mac, "ipX", "ipE", IPPROTO_TCP, 80, 10)}

\* Frames between internal hosts.
LocalEvents ==
    {Ipv4From(HostB, HostA.mac, "ipB", "ipA", pr, 10, 20) :
        pr \in {IPPROTO_ICMP, IPPROTO_TCP, IPPROTO_UDP, IPPROTO_GRE}}

\* Frames addressed to the gateway's external MAC.
ExternalEvents ==
    {Ipv4From(HostG, nat_external_mac, "ipX", "ipE", IPPROTO_TCP, 80, NatPortBase),
     Ipv4From(HostG, nat_external_mac, "ipX", "ipE", IPPROTO_UDP, 80, NatPortBase + 1),
     Ipv4From(HostG, nat_external_mac, "ipX", "ipE", IPPROTO_UDP, 80, 0),
     Ipv4From(HostG, nat_external_mac, "ipX", "ipE", IPPROTO_ICMP, 0, 0)}

\* A frame that is neither ARP nor IP, from A on another port.
OtherEvents ==
    {OfPacket(Pkt(ETH_TYPE_LLDP, HostA.mac, BROADCAST, 0, "-", "-", "-", 0, 0, 0), "p3")}

Ipv6Events ==
    {OfPacket(Pkt(ETH_TYPE_IPV6, HostA.mac, nat_internal_mac, 0, "-", "-", "-",
                  0, 0, 0), "p3")}

\* ------------------------------------------------------------------ steps
Init ==
    /\ arp_table = EmptyDict
    /\ switch_table = EmptyDict
    /\ pending_arp = EmptyDict
    /\ nat_port = NatPortBase
    /\ nat_translation = EmptyDict
    /\ msgs = <<>>
    /\ err = "none"
    /\ event = OfPacket(NoPkt, "-")
    /\ alloc_log = <<>>
    /\ flow_log = <<>>
    /\ arp_bcast = [ip \in IPs |-> 0]
    /\ last_in = EmptyDict

RECURSIVE Parked(_, _)
Parked(d, ks) ==
    IF ks = {} THEN 0
    ELSE LET k == CHOOSE x \in ks : TRUE IN Len(d[k]) + Parked(d, ks \ {k})

WithinBounds(S) ==
    /\ S.nat_port <= NatPortBase + MaxAlloc
    /\ Parked(S.pending_arp, DOMAIN S.pending_arp) <= MaxQueue

\* ARP requests the controller broadcast for ip, among ms.
Broadcasts(ms, ip) ==
    Cardinality({i \in 1..Len(ms) : /\ ms[i].type = "PacketOut"
                                    /\ ms[i].by = "send_arp_request"
                                    /\ ms[i].data.dst_ip = ip})

\* One packet-in event, handled to completion.
PacketIn(of_packet) ==
    LET S == handle_packet_in(Self, of_packet)
        p == of_packet.data
    IN  /\ WithinBounds(S)
        /\ arp_table' = S.arp_table
        /\ switch_table' = S.switch_table
        /\ pending_arp' = S.pending_arp
        /\ nat_port' = S.nat_port
        /\ nat_translation' = S.nat_translation
        /\ msgs' = S.msgs
        /\ err' = S.err
        /\ alloc_log' = S.alloc_log
        /\ flow_log' = IF Len(S.alloc_log) > Len(alloc_log)
                       THEN Append(flow_log, OFPMatch(p.src_ip, p.dst_ip, p.proto,
                                                      p.src_port, p.dst_port))
                       ELSE flow_log
        /\ event' = of_packet
        /\ arp_bcast' = [ip \in IPs |->
                           (IF is_arp(p) /\ p.src_ip = ip THEN 0 ELSE arp_bcast[ip])
                           + Broadcasts(S.msgs, ip)]
        /\ last_in' = IF is_ipv6(p) THEN last_in
                      ELSE Put(last_in, p.src, of_packet.in_port)

PacketInArp == \E e \in ArpEvents : PacketIn(e)
PacketInExternal == \E e \in ExternalEvents : PacketIn(e)
PacketInInternal == \E e \in OutboundEvents \cup LocalEvents \cup OtherEvents : PacketIn(e)
PacketInIpv6 == \E e \in Ipv6Events : PacketIn(e)

Next == PacketInArp \/ PacketInExternal \/ PacketInInternal \/ PacketInIpv6

Spec == Init /\ [][Next]_vars

\* ============================================================== properties
MACs == {HostA.mac, HostB.mac, HostG.mac, "macR", nat_internal_mac, nat_external_mac, BROADCAST}

PacketOuts(ms) == SelectSeq(ms, LAMBDA m : m.type = "PacketOut")
FlowMods(ms) == SelectSeq(ms, LAMBDA m : m.type = "FlowMod")
HasAction(acts, a) == \E i \in 1..Len(acts) : acts[i] = a

\* The path handle_packet_in takes for a frame.
OnExternalPath(p) == ~is_ipv6(p) /\ ~is_arp(p) /\ p.dst = nat_external_mac
OnOutboundPath(p) == ~is_ipv6(p) /\ ~is_arp(p) /\ p.dst # nat_external_mac
Translated(p) == is_ipv4(p) /\ p.proto \in {IPPROTO_TCP, IPPROTO_UDP}
ToExternal(p) == OnOutboundPath(p) /\ is_ipv4(p) /\ p.dst_ip \notin nat_internal_net
ToInternal(p) == OnOutboundPath(p) /\ is_ipv4(p) /\ p.dst_ip \in nat_internal_net

\* C1: the external ports returned by successive add_nat_entry calls start at
\* the base 3000, each is the previous plus one, they are strictly increasing
\* and pairwise distinct, and two different (address, port) sources never
\* share an external port.
C1_PortsStrictlyIncreasing ==
    LET n == Len(alloc_log)
    IN  /\ n >= 1 => alloc_log[1].port = NatPortBase
        /\ \A i \in 1..(n - 1) : alloc_log[i + 1].port = alloc_log[i].port + 1
        /\ \A i, j \in 1..n : i < j => alloc_log[i].port < alloc_log[j].port
        /\ \A i, j \in 1..n :
              alloc_log[i].entry # alloc_log[j].entry
                  => alloc_log[i].port # alloc_log[j].port

C1_Witness ==
    /\ Len(alloc_log) >= 2
    /\ alloc_log[1].entry # alloc_log[2].entry
    /\ alloc_log[1].entry[1] \in nat_internal_net
    /\ alloc_log[2].entry[1] \in nat_internal_net

\* C2: for every external port an allocation ever returned,
\* nat_translation[str(port)] is exactly the (address, port) pair passed to
\* that allocation, whatever frames were handled since.
C2_ReverseLookupStable ==
    \A i \in 1..Len(alloc_log) :
        /\ Str(alloc_log[i].port) \in DOMAIN nat_translation
        /\ nat_translation[Str(alloc_log[i].port)] = alloc_log[i].entry

\* Two allocations were made and a later inbound frame used one of them.
C2_Witness ==
    /\ Len(alloc_log) >= 2
    /\ alloc_log[1].entry # alloc_log[2].entry
    /\ OnExternalPath(event.data)
    /\ Str(event.data.dst_port) \in DOMAIN nat_translation
    /\ msgs # <<>>

\* C3: at most one ARP request is broadcast for an address between two ARP
\* frames from it, and a request for an address that already has a pending
\* queue appends to the queue and broadcasts nothing.
C3_OneBroadcastPerAddress ==
    [][\A ip \in IPs :
          /\ arp_bcast'[ip] <= 1
          /\ (/\ ip \in DOMAIN pending_arp
              /\ ip \in DOMAIN pending_arp'
              /\ pending_arp'[ip] # pending_arp[ip])
             => /\ Broadcasts(msgs', ip) = 0
                /\ Len(pending_arp'[ip]) = Len(pending_arp[ip]) + 1
                /\ SubSeq(pending_arp'[ip], 1, Len(pending_arp[ip])) = pending_arp[ip]
                /\ pending_arp'[ip][Len(pending_arp'[ip])].of_packet = event']_vars

\* A second request was queued for an address whose broadcast is in flight.
C3_Witness ==
    \E ip \in DOMAIN pending_arp :
        /\ Len(pending_arp[ip]) >= 2
        /\ arp_bcast[ip] = 1
        /\ Broadcasts(msgs, ip) = 0
        /\ pending_arp[ip][Len(pending_arp[ip])].of_packet = event

\* The packet-outs of ms that carry the frame of a parked request of q.
CarryParked(ms, q) ==
    {j \in 1..Len(ms) : \E i \in 1..Len(q) :
        /\ ms[j].data = q[i].of_packet.data
        /\ ms[j].in_port = q[i].of_packet.in_port}

\* C4: when an ARP reply from X is handled while n >= 1 requests are parked
\* for X, arp_table records X, each parked request is sent exactly once, in
\* queue order, with eth_dst set to X's MAC, and X's queue is gone afterwards.
C4_ReplayExactlyOnceInOrder ==
    [][LET p == event'.data
           X == p.src_ip
       IN  (is_arp(p) /\ p.opcode = ARP_REPLY /\ X \in DOMAIN pending_arp)
           => LET q == pending_arp[X]
                  outs == PacketOuts(msgs')
              IN  /\ X \in DOMAIN arp_table'
                  /\ arp_table'[X] = p.src_mac
                  /\ X \notin DOMAIN pending_arp'
                  /\ Len(outs) >= Len(q)
                  /\ \A i \in 1..Len(q) :
                        /\ outs[i].data = q[i].of_packet.data
                        /\ outs[i].in_port = q[i].of_packet.in_port
                        /\ HasAction(outs[i].actions, SetField("eth_dst", p.src_mac, 0))
                  /\ Cardinality(CarryParked(outs, q)) = Len(q)]_vars

\* The same without the count of sends: recorded, replayed in order with the
\* resolved MAC, queue deleted.
C4_ReplayInOrder ==
    [][LET p == event'.data
           X == p.src_ip
       IN  (is_arp(p) /\ p.opcode = ARP_REPLY /\ X \in DOMAIN pending_arp)
           => LET q == pending_arp[X]
                  outs == PacketOuts(msgs')
              IN  /\ X \in DOMAIN arp_table'
                  /\ arp_table'[X] = p.src_mac
                  /\ X \notin DOMAIN pending_arp'
                  /\ Len(outs) >= Len(q)
                  /\ \A i \in 1..Len(q) :
                        /\ outs[i].data = q[i].of_packet.data
                        /\ outs[i].in_port = q[i].of_packet.in_port
                        /\ HasAction(outs[i].actions, SetField("eth_dst", p.src_mac, 0))]_vars

\* The port the last output action of a packet-out names.
LastOutput(m) == m.actions[Len(m.actions)].val

\* C5: learned-address forwarding for a destination MAC m outputs on the
\* ingress port of the most recent non-IPv6 frame whose source MAC was m, and
\* floods if no such frame was seen; the frame being handled is learned
\* before it is classified, also when its handling ends in an error.
C5_ForwardToLastLearnedPort ==
    /\ \A m \in MACs :
          dst_port_of(Self, m) = IF m \in DOMAIN last_in THEN last_in[m] ELSE OFPP_FLOOD
    /\ ~is_ipv6(event.data) /\ event.in_port # "-"
          => dst_port_of(Self, event.data.src) = event.in_port
    /\ ~is_arp(event.data)
          => \A i \in 1..Len(msgs) :
                (msgs[i].type = "PacketOut" /\ msgs[i].by = "switch_forward")
                    => LastOutput(msgs[i]) =
                          IF msgs[i].data.dst \in DOMAIN last_in
                          THEN last_in[msgs[i].data.dst] ELSE OFPP_FLOOD

\* A was seen on p1 (a frame of its is parked) and later on p3, and a frame
\* for A was then forwarded to p3.
C5_Witness ==
    /\ HostA.mac \in DOMAIN switch_table
    /\ switch_table[HostA.mac] = "p3"
    /\ \E ip \in DOMAIN pending_arp : \E i \in 1..Len(pending_arp[ip]) :
          /\ pending_arp[ip][i].of_packet.data.src = HostA.mac
          /\ pending_arp[ip][i].of_packet.in_port = "p1"
    /\ \E i \in 1..Len(msgs) :
          /\ msgs[i].type = "PacketOut"
          /\ msgs[i].by = "switch_forward"
          /\ msgs[i].data.dst = HostA.mac
          /\ LastOutput(msgs[i]) = "p3"

\* C6: a TCP/UDP frame addressed to the gateway's external MAC whose
\* destination port has no translation entry is dropped: no packet-out, no
\* flow-mod, no ARP request, no pending entry, no translation entry, no error.
C6_TranslationMissDropped ==
    [][LET p == event'.data
       IN  (/\ OnExternalPath(p) /\ Translated(p)
            /\ Str(p.dst_port) \notin DOMAIN nat_translation)
           => /\ msgs' = <<>>
              /\ err' = "none"
              /\ pending_arp' = pending_arp
              /\ nat_translation' = nat_translation
              /\ nat_port' = nat_port
              /\ arp_table' = arp_table]_vars

\* A frame for port 3001 was dropped while only port 3000 is translated.
C6_Witness ==
    /\ OnExternalPath(event.data) /\ Translated(event.data)
    /\ event.data.dst_port = NatPortBase + 1
    /\ Str(NatPortBase) \in DOMAIN nat_translation
    /\ Str(event.data.dst_port) \notin DOMAIN nat_translation
    /\ msgs = <<>>
    /\ err = "none"

\* The match of a frame's exact flow tuple.
FlowMatch(p) == <<OFPMatch(p.src_ip, p.dst_ip, p.proto, p.src_port, p.dst_port)>>

\* C7: an internal-to-external TCP/UDP frame is never dropped: after it is
\* handled, either a packet-out for it towards the resolved next hop was
\* emitted, or it is parked with its match and rewrite actions in the queue of
\* the next-hop address and an ARP request for that address has been broadcast.
C7_OutboundSentOrParked ==
    [][LET p == event'.data
       IN  (ToExternal(p) /\ Translated(p))
           => \/ /\ nat_gateway_ip \in DOMAIN arp_table'
                 /\ \E i \in 1..Len(msgs') :
                       /\ msgs'[i].type = "PacketOut"
                       /\ msgs'[i].data = p
                       /\ msgs'[i].in_port = event'.in_port
                       /\ HasAction(msgs'[i].actions,
                                    SetField("eth_dst", arp_table'[nat_gateway_ip], 0))
              \/ /\ nat_gateway_ip \in DOMAIN pending_arp'
                 /\ arp_bcast'[nat_gateway_ip] >= 1
                 /\ LET q == pending_arp'[nat_gateway_ip]
                        e == q[Len(q)]
                    IN  /\ e.of_packet = event'
                        /\ e.match = FlowMatch(p)
                        /\ HasAction(e.actions, SetField("ipv4_src", nat_external_ip, 0))
                        /\ HasAction(e.actions, SetField("eth_src", nat_external_mac, 0))]_vars

\* A second outbound frame was parked behind the first, with no new broadcast.
C7_Witness ==
    /\ ToExternal(event.data) /\ Translated(event.data)
    /\ nat_gateway_ip \in DOMAIN pending_arp
    /\ Len(pending_arp[nat_gateway_ip]) >= 2
    /\ pending_arp[nat_gateway_ip][Len(pending_arp[nat_gateway_ip])].of_packet = event
    /\ Broadcasts(msgs, nat_gateway_ip) = 0

\* C8: an IPv4 frame whose transport is neither TCP nor UDP, on the
\* inbound-from-external path or on the internal-to-external branch of the
\* outbound path, is silently dropped: no error, no flow-mod, no packet-out,
\* no pending request and no translation entry.
C8_UntranslatedTransportDropped ==
    [][LET p == event'.data
       IN  (/\ is_ipv4(p) /\ ~Translated(p)
            /\ (OnExternalPath(p) \/ ToExternal(p)))
           => /\ err' = "none"
              /\ msgs' = <<>>
              /\ pending_arp' = pending_arp
              /\ nat_translation' = nat_translation
              /\ nat_port' = nat_port]_vars

\* C9: an inbound-from-external TCP/UDP frame that hits a translation entry
\* whose internal address is not in arp_table is parked in that address's
\* queue after an ARP request, and its handling ends without error, without a
\* flow-mod and without sending the frame.
C9_InboundUnresolvedParked ==
    [][LET p == event'.data
           key == Str(p.dst_port)
       IN  (/\ OnExternalPath(p) /\ Translated(p)
            /\ p.dst_port # 0
            /\ key \in DOMAIN nat_translation
            /\ nat_translation[key][1] \notin DOMAIN arp_table)
           => LET ip == nat_translation[key][1]
              IN  /\ err' = "none"
                  /\ ip \in DOMAIN pending_arp'
                  /\ pending_arp'[ip][Len(pending_arp'[ip])].of_packet = event'
                  /\ arp_bcast'[ip] >= 1
                  /\ FlowMods(msgs') = <<>>
                  /\ \A i \in 1..Len(msgs') : msgs'[i].data # p]_vars

\* The rewrite an inbound frame needs: the translation entry of its original
\* destination port, and the internal host's resolved MAC.
InboundRewritten(m) ==
    LET key == Str(m.data.dst_port)
        entry == nat_translation[key]
    IN  /\ key \in DOMAIN nat_translation
        /\ entry[1] \in DOMAIN arp_table
        /\ HasAction(m.actions, SetField("ipv4_dst", entry[1], 0))
        /\ HasAction(m.actions,
                     SetField(IF m.data.proto = IPPROTO_TCP THEN "tcp_dst" ELSE "udp_dst",
                              "-", entry[2]))
        /\ HasAction(m.actions, SetField("eth_dst", arp_table[entry[1]], 0))

\* C10: every packet-out that carries an inbound-from-external TCP/UDP frame,
\* sent at once or replayed after its ARP request was answered, has the
\* translation rewrite applied.
C10_InboundSentRewritten ==
    \A i \in 1..Len(msgs) :
        (/\ msgs[i].type = "PacketOut"
         /\ msgs[i].by = "switch_forward"
         /\ OnExternalPath(msgs[i].data) /\ Translated(msgs[i].data))
        => InboundRewritten(msgs[i])

\* The inbound frames sent at once (not from a replay) are rewritten.
C10_SentAtOnceRewritten ==
    ~is_arp(event.data) => C10_InboundSentRewritten

\* C11: on the internal-to-external path no flow-mod for the flow's match
\* precedes the packet-out of the frame that triggered it; in particular no
\* flow-mod for the flow is emitted while the frame is only parked.
C11_RuleInstalledAfterSend ==
    [][LET p == event'.data
       IN  (ToExternal(p) /\ Translated(p))
           => \A i \in 1..Len(msgs') :
                 (msgs'[i].type = "FlowMod" /\ msgs'[i].match = FlowMatch(p))
                 => \E j \in 1..(i - 1) :
                       /\ msgs'[j].type = "PacketOut"
                       /\ msgs'[j].data = p]_vars

\* The flow-mod router_forward itself emits (line 111) does follow the
\* packet-out: the last flow-mod of a sent frame comes after its packet-out.
C11_RouterForwardInstallsAfterSend ==
    [][LET p == event'.data
       IN  (ToExternal(p) /\ Translated(p) /\ nat_gateway_ip \in DOMAIN arp_table)
           => /\ Len(msgs') = 3
              /\ msgs'[1].type = "FlowMod"
              /\ msgs'[2].type = "PacketOut" /\ msgs'[2].data = p
              /\ msgs'[3].type = "FlowMod" /\ msgs'[3].match = FlowMatch(p)
              /\ msgs'[3].actions = msgs'[2].actions]_vars

\* C12: every inbound ARP frame is itself re-forwarded unmodified by
\* learned-address forwarding: one packet-out carries the ARP frame, with its
\* ingress port, and a single output on the learned port of its destination
\* MAC (flood if unknown), also when the sender's queue was just drained.
C12_ArpFrameReforwarded ==
    [][LET p == event'.data
       IN  is_arp(p)
           => \E i \in 1..Len(msgs') :
                 /\ msgs'[i].type = "PacketOut"
                 /\ msgs'[i].by = "switch_forward"
                 /\ msgs'[i].data = p
                 /\ msgs'[i].in_port = event'.in_port
                 /\ msgs'[i].actions =
                       <<OFPActionOutput(IF p.dst \in DOMAIN switch_table'
                                         THEN switch_table'[p.dst] ELSE OFPP_FLOOD)>>]_vars

\* The same for an ARP frame whose sender had no pending queue.
C12_ReforwardedWhenNoQueue ==
    [][LET p == event'.data
       IN  (is_arp(p) /\ p.src_ip \notin DOMAIN pending_arp)
           => \E i \in 1..Len(msgs') :
                 /\ msgs'[i].type = "PacketOut"
                 /\ msgs'[i].by = "switch_forward"
                 /\ msgs'[i].data = p
                 /\ msgs'[i].in_port = event'.in_port
                 /\ msgs'[i].actions =
                       <<OFPActionOutput(IF p.dst \in DOMAIN switch_table'
                                         THEN switch_table'[p.dst] ELSE OFPP_FLOOD)>>]_vars

\* The ARP replies the controller sent, among ms.
Replies(ms) == SelectSeq(ms, LAMBDA m : m.type = "PacketOut" /\ m.by = "send_arp_reply")

OwnMac(ip) == IF ip = nat_internal_ip THEN nat_internal_mac ELSE nat_external_mac

\* C13: an ARP request for one of the controller's own addresses gets exactly
\* one reply, addressed to the requester's MAC, with the matching own MAC as
\* sender, output on the ingress port of the request; a request for another
\* address, and any ARP reply, gets none.
C13_ArpReplyToRequester ==
    [][LET p == event'.data
           rs == Replies(msgs')
       IN  is_arp(p)
           => IF p.opcode = ARP_REQUEST /\ p.dst_ip \in {nat_internal_ip, nat_external_ip}
              THEN /\ Len(rs) = 1
                   /\ rs[1].data = ArpReplyPkt(OwnMac(p.dst_ip), p.dst_ip,
                                               p.src_mac, p.src_ip)
                   /\ rs[1].actions = <<OFPActionOutput(OFPP_IN_PORT)>>
                   /\ rs[1].in_port = event'.in_port
              ELSE rs = <<>>]_vars

\* The same for a request whose sender had no pending queue.
C13_ReplyWhenNoQueue ==
    [][LET p == event'.data
           rs == Replies(msgs')
       IN  (is_arp(p) /\ p.src_ip \notin DOMAIN pending_arp)
           => IF p.opcode = ARP_REQUEST /\ p.dst_ip \in {nat_internal_ip, nat_external_ip}
              THEN /\ Len(rs) = 1
                   /\ rs[1].data = ArpReplyPkt(OwnMac(p.dst_ip), p.dst_ip,
                                               p.src_mac, p.src_ip)
                   /\ rs[1].actions = <<OFPActionOutput(OFPP_IN_PORT)>>
                   /\ rs[1].in_port = event'.in_port
              ELSE rs = <<>>]_vars

\* C14: nat_translation and nat_port change only while a TCP/UDP frame on the
\* outbound path with a destination outside the internal network is handled;
\* ARP frames, inbound-from-external frames, internal-to-internal frames,
\* dropped frames and the replay of parked requests leave both unchanged.
C14_TranslationChangesOnlyOutbound ==
    [][(nat_translation' # nat_translation \/ nat_port' # nat_port)
       => (ToExternal(event'.data) /\ Translated(event'.data))]_vars

\* An ARP frame replayed a parked outbound request, and the table still
\* holds exactly the entries the allocations made.
C14_Witness ==
    /\ is_arp(event.data)
    /\ \E i \in 1..Len(msgs) :
          /\ msgs[i].type = "PacketOut"
          /\ ToExternal(msgs[i].data) /\ Translated(msgs[i].data)
    /\ Len(alloc_log) >= 1
    /\ Cardinality(DOMAIN nat_translation) = Len(alloc_log)
    /\ nat_port = NatPortBase + Len(alloc_log)

\* C15: the frames of one outbound flow (same source address and port,
\* destination address and port, and transport) create exactly one
\* translation entry, however many of them are handled.
C15_OneEntryPerFlow ==
    \A i, j \in 1..Len(flow_log) : flow_log[i] = flow_log[j] => i = j

\* C15 as amended: every TCP/UDP frame handled on the internal-to-external
\* branch creates exactly one new translation entry, for its source address
\* and port under a port not in the table before, also when an earlier frame
\* of the same flow already created one.
C15_OneEntryPerFrame ==
    [][LET p == event'.data
           n == Len(alloc_log)
       IN  (ToExternal(p) /\ Translated(p))
           => /\ Len(alloc_log') = n + 1
              /\ SubSeq(alloc_log', 1, n) = alloc_log
              /\ alloc_log'[n + 1].entry = <<p.src_ip, p.src_port>>
              /\ Str(alloc_log'[n + 1].port) \notin DOMAIN nat_translation
              /\ DOMAIN nat_translation' =
                    DOMAIN nat_translation \cup {Str(alloc_log'[n + 1].port)}
              /\ flow_log'[n + 1] = FlowMatch(p)[1]]_vars

\* Two frames of the same flow were handled and each created an entry.
C15_Witness ==
    /\ Len(flow_log) >= 2
    /\ flow_log[1] = flow_log[2]
    /\ alloc_log[1].entry = alloc_log[2].entry
    /\ alloc_log[1].port # alloc_log[2].port
    /\ Cardinality(DOMAIN nat_translation) = 2

\* The identity the controller uses towards a next hop or ARP target.
SenderMac(ip) == IF ip = nat_gateway_ip THEN nat_external_mac ELSE nat_internal_mac
SenderIp(ip) == IF ip = nat_gateway_ip THEN nat_external_ip ELSE nat_internal_ip

\* The address router_forward was forwarding to during the event: the ARP
\* sender whose queue is replayed, or the default gateway for an outbound frame.
NextHopOf(e) == IF is_arp(e.data) THEN e.data.src_ip ELSE nat_gateway_ip

\* C16: every ARP request the controller broadcasts is addressed to the
\* broadcast MAC and carries the external MAC/IP as sender iff its target is
\* nat_gateway_ip, the internal MAC/IP otherwise; the frames router_forward
\* sends get their source MAC by the same selection on the next hop.
C16_SenderIdentityByTarget ==
    \A i \in 1..Len(msgs) :
        /\ (msgs[i].type = "PacketOut" /\ msgs[i].by = "send_arp_request")
           => LET a == msgs[i].data
              IN  /\ a.dst = BROADCAST
                  /\ a.opcode = ARP_REQUEST
                  /\ a.src = SenderMac(a.dst_ip)
                  /\ a.src_mac = SenderMac(a.dst_ip)
                  /\ a.src_ip = SenderIp(a.dst_ip)
                  /\ (a.src = nat_external_mac) <=> (a.dst_ip = nat_gateway_ip)
                  /\ msgs[i].actions = <<OFPActionOutput(OFPP_FLOOD)>>
        /\ (/\ msgs[i].type = "PacketOut"
            /\ msgs[i].by = "switch_forward"
            /\ Len(msgs[i].actions) >= 3
            /\ msgs[i].actions[1] = OFPActionDecNwTtl)
           => msgs[i].actions[2] = SetField("eth_src", SenderMac(NextHopOf(event)), 0)

\* A request for the default gateway went out with the external identity.
C16_Witness ==
    \E i \in 1..Len(msgs) :
        /\ msgs[i].type = "PacketOut"
        /\ msgs[i].by = "send_arp_request"
        /\ msgs[i].data.dst_ip = nat_gateway_ip
        /\ msgs[i].data.src_mac = nat_external_mac
        /\ msgs[i].data.src_ip = nat_external_ip

\* C17 as stated: only a resolution reply records an entry or drains a queue;
\* a resolution request leaves the resolution table and the pending queues
\* unchanged, and no non-resolution frame changes the resolution table.
C17_OnlyRepliesRecord ==
    [][LET p == event'.data
       IN  /\ (is_arp(p) /\ p.opcode = ARP_REQUEST)
              => (arp_table' = arp_table /\ pending_arp' = pending_arp)
           /\ ~is_arp(p) => arp_table' = arp_table]_vars

\* C17 amended: every ARP frame, request or reply, records its sender and
\* removes the sender's pending queue, leaving every other entry and queue
\* alone; no other frame changes the resolution table or removes a queue.
C17_AnyArpFrameRecords ==
    [][LET p == event'.data
       IN  IF is_arp(p)
           THEN /\ arp_table' = Put(arp_table, p.src_ip, p.src_mac)
                /\ pending_arp' = Del(pending_arp, p.src_ip)
           ELSE /\ arp_table' = arp_table
                /\ DOMAIN pending_arp \subseteq DOMAIN pending_arp'
                /\ \A ip \in DOMAIN pending_arp :
                      /\ Len(pending_arp'[ip]) >= Len(pending_arp[ip])
                      /\ SubSeq(pending_arp'[ip], 1, Len(pending_arp[ip]))
                            = pending_arp[ip]]_vars

\* An ARP request has just been handled: its sender is recorded, its queue is
\* gone and the request parked for it has been replayed.
C17_Witness ==
    /\ is_arp(event.data)
    /\ event.data.opcode = ARP_REQUEST
    /\ event.data.src_ip \in DOMAIN arp_table
    /\ arp_table[event.data.src_ip] = event.data.src_mac
    /\ event.data.src_ip \notin DOMAIN pending_arp
    /\ \E i \in 1..Len(msgs) :
          /\ msgs[i].type = "PacketOut"
          /\ msgs[i].by = "switch_forward"
          /\ Len(msgs[i].actions) >= 3
          /\ msgs[i].actions[1] = OFPActionDecNwTtl

\* The exact flow tuple of a frame: addresses and protocol, and the transport
\* ports where the protocol has them.
TupleMatch(p) ==
    <<OFPMatch(p.src_ip, p.dst_ip, p.proto,
               IF Translated(p) THEN p.src_port ELSE 0,
               IF Translated(p) THEN p.dst_port ELSE 0)>>

LearnedPort(table, mac) == IF mac \in DOMAIN table THEN table[mac] ELSE OFPP_FLOOD

InternalToInternalHandled(p) ==
    /\ err' = "none"
    /\ Len(FlowMods(msgs')) = 1
    /\ FlowMods(msgs')[1].match = TupleMatch(p)
    /\ FlowMods(msgs')[1].actions = <<OFPActionOutput(LearnedPort(switch_table', p.dst))>>
    /\ Len(PacketOuts(msgs')) = 1
    /\ PacketOuts(msgs')[1].data = p
    /\ PacketOuts(msgs')[1].by = "switch_forward"
    /\ HasAction(PacketOuts(msgs')[1].actions,
                 OFPActionOutput(LearnedPort(switch_table', p.dst)))
    /\ nat_translation' = nat_translation
    /\ nat_port' = nat_port
    /\ pending_arp' = pending_arp
    /\ arp_table' = arp_table

\* C18: an outbound-path IPv4 frame with a destination address in the internal
\* range installs exactly one flow rule, matching the frame's exact tuple with
\* the single action "output on the learned port of the destination MAC, flood
\* if unknown", is sent by switch_forward, and creates no translation entry,
\* ARP request or pending entry.
C18_InternalToInternalForwarded ==
    [][ToInternal(event'.data) => InternalToInternalHandled(event'.data)]_vars

\* The same for the protocols the handler builds a match for.
C18_ForwardedWhenIcmpTcpUdp ==
    [][(/\ ToInternal(event'.data)
        /\ event'.data.proto \in {IPPROTO_ICMP, IPPROTO_TCP, IPPROTO_UDP})
       => InternalToInternalHandled(event'.data)]_vars

\* C19: after every frame event no address has both an arp_table entry and a
\* pending queue, and every pending queue is non-empty.
C19_ResolvedOrPending ==
    /\ DOMAIN arp_table \cap DOMAIN pending_arp = {}
    /\ \A ip \in DOMAIN pending_arp : pending_arp[ip] # <<>>

\* An ARP frame has just recorded its sender and removed the sender's queue,
\* replaying what was parked, while another address still has a queue.
C19_Witness ==
    /\ is_arp(event.data)
    /\ event.data.src_ip \in DOMAIN arp_table
    /\ event.data.src_ip \notin DOMAIN pending_arp
    /\ pending_arp # EmptyDict
    /\ \E i \in 1..Len(msgs) :
          /\ msgs[i].type = "PacketOut"
          /\ msgs[i].by = "switch_forward"
          /\ Len(msgs[i].actions) >= 1
          /\ msgs[i].actions[1] = OFPActionDecNwTtl

\* C20: the internal address of every translation entry lies in the internal
\* network: no frame with a source address outside it allocates a port.
C20_TranslatedSourcesInternal ==
    /\ \A k \in DOMAIN nat_translation : nat_translation[k][1] \in nat_internal_net
    /\ \A i \in 1..Len(alloc_log) : alloc_log[i].entry[1] \in nat_internal_net

\* The number of output actions in an action list.
Outputs(acts) == Len(SelectSeq(acts, LAMBDA a : a.kind = "Output"))

\* A rule installed before any frame of the event was sent.
InstalledBeforeSend(ms, i) ==
    /\ ms[i].type = "FlowMod"
    /\ \A j \in 1..(i - 1) : ms[j].type # "PacketOut"

\* C21: every packet-out the controller emits carries exactly one output
\* action, on every path, and a rule installed before the frame is sent keeps
\* the action list it was installed with (one output action).
C21_SingleOutputAction ==
    \A i \in 1..Len(msgs) :
        /\ msgs[i].type = "PacketOut" => Outputs(msgs[i].actions) = 1
        /\ InstalledBeforeSend(msgs, i) => Outputs(msgs[i].actions) = 1

\* What does hold: the rule installed before the send is not changed by it;
\* ARP requests, replies and forwards, and replays of requests parked without
\* actions, carry one output action; a frame sent with an action list built by
\* a handler carries two.
C21_OutputActionsPerPath ==
    \A i \in 1..Len(msgs) :
        LET acts == msgs[i].actions
        IN  /\ InstalledBeforeSend(msgs, i) => Outputs(acts) = 1
            /\ (msgs[i].type = "PacketOut"
                /\ msgs[i].by \in {"send_arp_request", "send_arp_reply"})
               => Outputs(acts) = 1
            /\ (msgs[i].type = "PacketOut" /\ msgs[i].by = "switch_forward")
               => Outputs(acts)
                     = (IF Len(acts) = 1
                           \/ (acts[1] = OFPActionDecNwTtl /\ Len(acts) = 4)
                        THEN 1 ELSE 2)

====
